---- MODULE Spec2Model ----
(***************************************************************************)
(* Model of src/main.py: a word list is read from a text file into a set   *)
(* of words (read_data, ensemble_mots) and queried by length               *)
(* (mots_de_n_lettres), by substring (mots_avec), by length with prefix    *)
(* and suffix (cherche1) and by length range with alternative prefixes,    *)
(* interior fragments and suffixes (cherche2).                             *)
(*                                                                         *)
(* A Python str is modelled as a sequence of one-character strings, with   *)
(* Python's 0-based offsets kept in every index computation.               *)
(***************************************************************************)
EXTENDS Integers, Sequences, FiniteSets, TLC

\* Bounds of the model: the number of characters of the corpus file, and the
\* total size of the string and list arguments of one call.
MaxFile == 3
MaxArgs == 3

\* Letters of the words; SP and NL are the whitespace that str.strip removes.
Lettres == {"a", "b"}
SP == " "
NL == "\n"
Blancs == {SP, NL}
Caracteres == Lettres \cup Blancs

SeqsUpTo(S, n) == UNION {[1..m -> S] : m \in 0..n}

Min(S) == CHOOSE x \in S : \A y \in S : x <= y

----------------------------------------------------------------------------
\* Python string primitives.

\* s[i:j] with 0 <= i <= j <= len(s)
Slice(s, i, j) == SubSeq(s, i + 1, j)

\* str.lstrip / str.rstrip / str.strip with no argument: drop whitespace
\* at both ends, keep it inside.
RECURSIVE lstrip(_)
lstrip(s) == IF s # <<>> /\ Head(s) \in Blancs THEN lstrip(Tail(s)) ELSE s

RECURSIVE rstrip(_)
rstrip(s) ==
    IF s # <<>> /\ s[Len(s)] \in Blancs THEN rstrip(SubSeq(s, 1, Len(s) - 1)) ELSE s

strip(s) == rstrip(lstrip(s))

\* startswith that compares only as many characters as the word has
startswith_tronque(mot, pref) ==
    LET c == IF Len(pref) <= Len(mot) THEN Len(pref) ELSE Len(mot)
    IN  Slice(mot, 0, c) = Slice(pref, 0, c)

\* mot.startswith(pref), mot.endswith(suf)
startswith(mot, pref) ==
    /\ Len(pref) <= Len(mot)
    /\ Slice(mot, 0, Len(pref)) = pref

endswith(mot, suf) ==
    /\ Len(suf) <= Len(mot)
    /\ Slice(mot, Len(mot) - Len(suf), Len(mot)) = suf

\* mot.find(sub, debut): the lowest offset i >= debut with
\* mot[i:i+len(sub)] == sub, or -1. For the empty sub every offset
\* debut..len(mot) is found.
find(mot, sub, debut) ==
    LET trouves == {i \in debut..(Len(mot) - Len(sub)) :
                        Slice(mot, i, i + Len(sub)) = sub}
    IN  IF trouves = {} THEN -1 ELSE Min(trouves)

\* a containment test that looks at the start of the word only
contains_debut(mot, s) == find(mot, s, 0) = 0

\* s in mot
contains(mot, s) == find(mot, s, 0) # -1

----------------------------------------------------------------------------
\* The loader.

\* The corpus file is a sequence of characters.
Fichiers == SeqsUpTo(Caracteres, MaxFile)

\* for line in file: the file cut after each line terminator; the last line
\* may have none.
RECURSIVE lignes(_)
lignes(fichier) ==
    IF fichier = <<>> THEN <<>>
    ELSE LET fins == {i \in 1..Len(fichier) : fichier[i] = NL}
             fin == IF fins = {} THEN Len(fichier) ELSE Min(fins)
         IN  <<SubSeq(fichier, 1, fin)>> \o lignes(SubSeq(fichier, fin + 1, Len(fichier)))

\* read_data: [line.strip() for line in file]
read_data(fichier) == [i \in 1..Len(lignes(fichier)) |-> strip(lignes(fichier)[i])]

\* ensemble_mots: set(read_data(filename))
ensemble_mots(fichier) == {read_data(fichier)[i] : i \in 1..Len(read_data(fichier))}

----------------------------------------------------------------------------
\* The queries.

\* a length filter with <= for ==
mots_de_n_lettres_au_plus(mots, n) == {mot \in mots : Len(mot) <= n}

\* a length filter that drops the empty word
mots_de_n_lettres_non_vides(mots, n) == {mot \in mots : mot # <<>> /\ Len(mot) = n}

\* {mot for mot in mots if len(mot) == n}
mots_de_n_lettres(mots, n) == {mot \in mots : Len(mot) = n}

\* {mot for mot in mots if s in mot}
mots_avec(mots, s) == {mot \in mots : contains(mot, s)}

\* an anchored search that refuses overlapping prefix and suffix
cherche1_disjoint(mots, start, stop, n) ==
    {mot \in mots : /\ Len(mot) = n
                    /\ Len(start) + Len(stop) <= n
                    /\ startswith(mot, start)
                    /\ endswith(mot, stop)}

\* {mot for mot in mots if len(mot) == n and mot.startswith(start)
\*                                      and mot.endswith(stop)}
cherche1(mots, start, stop, n) ==
    {mot \in mots : Len(mot) = n /\ startswith(mot, start) /\ endswith(mot, stop)}

\* An argument of cherche2 is a str or a list of str.
Str(s) == [type |-> "str", val |-> s]
List(l) == [type |-> "list", val |-> l]

\* if isinstance(x, str): x = [x]
enliste(x) == IF x.type = "str" THEN <<x.val>> ELSE x.val

\* the test with <= for <: an occurrence may end at the end of the word
au_milieu_fin(idx, mlen, longueur) == idx > 0 /\ idx + mlen <= longueur

\* the test with >= for >: an occurrence may start at the start of the word
au_milieu_debut(idx, mlen, longueur) == idx >= 0 /\ idx + mlen < longueur

\* the test of the while loop's body: idx > 0 and idx + mlen < longueur
au_milieu(idx, mlen, longueur) == idx > 0 /\ idx + mlen < longueur

\* a single find-and-check: no search after the first found index
suivant_aucun(mot, milieu, idx) == -1

\* the search resumed at the found index, not past it
suivant_sur_place(mot, milieu, idx) == find(mot, milieu, idx)

\* the search resumed past a found index that failed the test:
\* idx = mot.find(milieu, idx + 1)
suivant(mot, milieu, idx) == find(mot, milieu, idx + 1)

\* the while loop entered with idx: TRUE when it breaks with
\* contient_au_milieu set, FALSE when idx reaches -1
RECURSIVE boucle_while(_, _, _)
boucle_while(mot, milieu, idx) ==
    IF idx = -1 THEN FALSE
    ELSE IF au_milieu(idx, Len(milieu), Len(mot)) THEN TRUE
    ELSE boucle_while(mot, milieu, suivant(mot, milieu, idx))

\* the for loop over lmid: contient_au_milieu after it
boucle_for(mot, lmid) ==
    \E k \in 1..Len(lmid) : boucle_while(mot, lmid[k], find(mot, lmid[k], 0))

\* the length test with and for or
hors_bornes_et(longueur, nmin, nmax) == longueur < nmin /\ longueur > nmax

\* the length test that skips a word: longueur < nmin or longueur > nmax
hors_bornes(longueur, nmin, nmax) == longueur < nmin \/ longueur > nmax

\* any(mot.startswith(pref) for pref in lstart)
any_startswith(mot, lstart) == \E k \in 1..Len(lstart) : startswith(mot, lstart[k])

\* any(mot.endswith(suf) for suf in lstop)
any_endswith(mot, lstop) == \E k \in 1..Len(lstop) : endswith(mot, lstop[k])

\* the words for which the loop body gets past the length test, that is,
\* those whose prefixes are examined
examines(mots, nmin, nmax) == {mot \in mots : ~hors_bornes(Len(mot), nmin, nmax)}

cherche2(mots, lstart, lmid, lstop, nmin, nmax) ==
    {mot \in mots :
        /\ ~hors_bornes(Len(mot), nmin, nmax)
        /\ any_startswith(mot, enliste(lstart))
        /\ any_endswith(mot, enliste(lstop))
        /\ boucle_for(mot, enliste(lmid))}

----------------------------------------------------------------------------
\* The inputs of the calls.

\* the lengths asked for: from a negative one to one longer than any word
Longueurs == -1..(MaxFile + 1)

\* the length bounds given to cherche2
Bornes == -1..MaxFile

\* the strings of at most n letters
Chaines(n) == SeqsUpTo(Lettres, n)

\* the lists of strings of total size at most n, an element of l letters
\* counting for 1 + l
RECURSIVE Listes(_)
Listes(n) ==
    IF n <= 0 THEN {<<>>}
    ELSE {<<>>} \cup UNION {{<<f>> \o l : l \in Listes(n - 1 - Len(f))} : f \in Chaines(n - 1)}

RECURSIVE Somme(_)
Somme(l) == IF l = <<>> THEN 0 ELSE 1 + Len(Head(l)) + Somme(Tail(l))

\* the size of an argument of cherche2
Taille(x) == IF x.type = "str" THEN Len(x.val) ELSE Somme(x.val)

\* the arguments of size at most n, a str or a list
ArgumentsDe == [n \in 0..MaxArgs |->
                  {Str(f) : f \in Chaines(n)} \cup {List(l) : l \in Listes(n)}]

----------------------------------------------------------------------------
\* The program as a state machine: the corpus is loaded once, then one query
\* is called on the lexicon and returns. The interior scan of cherche2 for
\* one word (the for loop over lmid and its while loop) is also modelled
\* statement by statement.

VARIABLES pc, mots, op, args, resultat, vus,
          mot, lmid, k, idx, contient_au_milieu, trouves

vars == <<pc, mots, op, args, resultat, vus,
          mot, lmid, k, idx, contient_au_milieu, trouves>>

appel == <<op, args, resultat, vus>>
scan == <<mot, lmid, k, idx, contient_au_milieu, trouves>>

Init ==
    /\ pc = "init"
    /\ mots = {}
    /\ op = "aucun"
    /\ args = <<>>
    /\ resultat = {}
    /\ vus = {}
    /\ mot = <<>>
    /\ lmid = <<>>
    /\ k = 0
    /\ idx = -1
    /\ contient_au_milieu = FALSE
    /\ trouves = 0

\* mots = ensemble_mots(FILENAME)
Load ==
    /\ pc = "init"
    /\ \E fichier \in Fichiers : mots' = ensemble_mots(fichier)
    /\ pc' = "pret"
    /\ UNCHANGED <<appel, scan>>

CallMotsDeNLettres ==
    /\ pc = "pret"
    /\ \E n \in Longueurs :
          /\ args' = [n |-> n]
          /\ resultat' = mots_de_n_lettres(mots, n)
    /\ op' = "mots_de_n_lettres"
    /\ pc' = "retour"
    /\ UNCHANGED <<mots, vus, scan>>

CallMotsAvec ==
    /\ pc = "pret"
    /\ \E s \in Chaines(MaxArgs) :
          /\ args' = [s |-> s]
          /\ resultat' = mots_avec(mots, s)
    /\ op' = "mots_avec"
    /\ pc' = "retour"
    /\ UNCHANGED <<mots, vus, scan>>

CallCherche1 ==
    /\ pc = "pret"
    /\ \E start \in Chaines(MaxArgs), stop \in Chaines(MaxArgs), n \in Longueurs :
          /\ args' = [start |-> start, stop |-> stop, n |-> n]
          /\ resultat' = cherche1(mots, start, stop, n)
    /\ op' = "cherche1"
    /\ pc' = "retour"
    /\ UNCHANGED <<mots, vus, scan>>

\* vus records the words for which the loop body got past the length test.
CallCherche2 ==
    /\ pc = "pret"
    /\ \E lstart \in ArgumentsDe[MaxArgs] :
       \E lmid_ \in ArgumentsDe[MaxArgs - Taille(lstart)] :
       \E lstop \in ArgumentsDe[MaxArgs - Taille(lstart) - Taille(lmid_)] :
       \E nmin \in Bornes, nmax \in Bornes :
          /\ args' = [lstart |-> lstart, lmid |-> lmid_, lstop |-> lstop,
                      nmin |-> nmin, nmax |-> nmax]
          /\ resultat' = cherche2(mots, lstart, lmid_, lstop, nmin, nmax)
          /\ vus' = examines(mots, nmin, nmax)
    /\ op' = "cherche2"
    /\ pc' = "retour"
    /\ UNCHANGED <<mots, scan>>

\* contient_au_milieu = False, before the for loop over lmid, for a word
\* of the lexicon that got past the length, prefix and suffix tests
ScanBegin ==
    /\ pc = "pret"
    /\ \E m \in mots, x \in ArgumentsDe[MaxArgs] :
          /\ mot' = m
          /\ lmid' = enliste(x)
    /\ contient_au_milieu' = FALSE
    /\ k' = 1
    /\ idx' = -1
    /\ trouves' = 0
    /\ pc' = "for"
    /\ UNCHANGED <<mots, appel>>

\* for milieu in lmid: mlen = len(milieu); idx = mot.find(milieu)
ForMilieu ==
    /\ pc = "for"
    /\ k <= Len(lmid)
    /\ idx' = find(mot, lmid[k], 0)
    /\ trouves' = IF idx' # -1 THEN 1 ELSE 0
    /\ pc' = "while"
    /\ UNCHANGED <<mots, appel, mot, lmid, k, contient_au_milieu>>

\* the for loop has no element left
ForFin ==
    /\ pc = "for"
    /\ k > Len(lmid)
    /\ pc' = "fin"
    /\ UNCHANGED <<mots, appel, scan>>

\* while idx != -1: if idx > 0 and idx + mlen < longueur:
\*     contient_au_milieu = True; break
WhileTrouve ==
    /\ pc = "while"
    /\ idx # -1
    /\ au_milieu(idx, Len(lmid[k]), Len(mot))
    /\ contient_au_milieu' = TRUE
    /\ pc' = "apres"
    /\ UNCHANGED <<mots, appel, mot, lmid, k, idx, trouves>>

\* while idx != -1: the test fails; idx = mot.find(milieu, idx + 1)
WhileReprise ==
    /\ pc = "while"
    /\ idx # -1
    /\ ~au_milieu(idx, Len(lmid[k]), Len(mot))
    /\ idx' = suivant(mot, lmid[k], idx)
    /\ trouves' = IF idx' # -1 THEN trouves + 1 ELSE trouves
    /\ UNCHANGED <<pc, mots, appel, mot, lmid, k, contient_au_milieu>>

\* while idx != -1: idx is -1, the loop ends
WhileFin ==
    /\ pc = "while"
    /\ idx = -1
    /\ pc' = "apres"
    /\ UNCHANGED <<mots, appel, scan>>

\* if contient_au_milieu: break -- else the next element of lmid
Apres ==
    /\ pc = "apres"
    /\ IF contient_au_milieu
         THEN pc' = "fin" /\ k' = k
         ELSE pc' = "for" /\ k' = k + 1
    /\ UNCHANGED <<mots, appel, mot, lmid, idx, contient_au_milieu, trouves>>

Scan == ScanBegin \/ ForMilieu \/ ForFin \/ WhileTrouve \/ WhileReprise \/ WhileFin \/ Apres

\* The loader and the three one-line queries.
Next == Load \/ CallMotsDeNLettres \/ CallMotsAvec \/ CallCherche1

Spec == Init /\ [][Next]_vars

\* The loader and cherche2.
NextCherche2 == Load \/ CallCherche2

SpecCherche2 == Init /\ [][NextCherche2]_vars

\* The loader and the interior scan, statement by statement. The program is
\* single-threaded and synchronous: a step that can be taken is taken.
NextScan == Load \/ Scan

SpecScan == Init /\ [][NextScan]_vars /\ WF_vars(NextScan)

----------------------------------------------------------------------------
\* The properties, stated on the characters of the words.

\* the strings of a str-or-collection argument, a str being the only
\* string of its collection
Elements(x) == IF x.type = "str" THEN {x.val} ELSE {x.val[i] : i \in 1..Len(x.val)}

\* m occurs in w at offset d (0-based): w[d + i] = m[i] for every i
OccursAt(w, m, d) ==
    /\ d >= 0
    /\ d + Len(m) <= Len(w)
    /\ \A i \in 1..Len(m) : w[d + i] = m[i]

StartsWith(w, p) == OccursAt(w, p, 0)
EndsWith(w, s) == OccursAt(w, s, Len(w) - Len(s))
Occurs(w, m) == \E d \in 0..Len(w) : OccursAt(w, m, d)

\* an occurrence of m in w that starts after offset 0 and ends before len(w)
StrictInterior(w, m) == \E d \in 1..Len(w) : OccursAt(w, m, d) /\ d + Len(m) < Len(w)

\* the first three conditions of the contract of cherche2
Candidate(w) ==
    /\ args.nmin <= Len(w) /\ Len(w) <= args.nmax
    /\ \E p \in Elements(args.lstart) : StartsWith(w, p)
    /\ \E s \in Elements(args.lstop) : EndsWith(w, s)

\* C1: cherche2 returns exactly the words of the lexicon whose length is in
\* nmin..nmax, that start with a prefix of lstart, end with a suffix of lstop
\* and hold a strictly interior occurrence of a fragment of lmid.
C1_Cherche2Contract ==
    op = "cherche2" =>
        resultat = {w \in mots : Candidate(w)
                                 /\ \E m \in Elements(args.lmid) : StrictInterior(w, m)}

\* a call with a list of prefixes that keeps a word and rejects another
C1_Witness ==
    /\ op = "cherche2"
    /\ args.lstart.type = "list"
    /\ resultat # {}
    /\ resultat # mots

\* C2: cherche1 returns the words of mots_de_n_lettres(mots, n) that start
\* with start and end with stop; the two may overlap, so a word equal to
\* start = stop of length n is returned.
C2_Cherche1Contract ==
    op = "cherche1" =>
        /\ resultat = {w \in mots_de_n_lettres(mots, args.n) :
                           StartsWith(w, args.start) /\ EndsWith(w, args.stop)}
        /\ (args.start = args.stop /\ Len(args.start) = args.n /\ args.start \in mots)
              => args.start \in resultat

\* the prefix and the suffix are the whole word, which is returned
C2_Witness ==
    /\ op = "cherche1"
    /\ args.start = args.stop
    /\ Len(args.start) = args.n
    /\ args.n >= 2
    /\ resultat = {args.start}

\* C3, as stated: cherche1 returns the empty set whenever
\* len(start) + len(stop) > n.
C3_Original ==
    (op = "cherche1" /\ Len(args.start) + Len(args.stop) > args.n) => resultat = {}

\* C3, amended: cherche1 returns the empty set whenever start or stop alone
\* is longer than n.
C3_Amended ==
    (op = "cherche1" /\ (Len(args.start) > args.n \/ Len(args.stop) > args.n))
        => resultat = {}

\* the prefix is longer than n and begins with a word of n letters of the
\* lexicon
C3_Witness ==
    /\ op = "cherche1"
    /\ Len(args.start) > args.n
    /\ \E w \in mots : Len(w) = args.n /\ Len(w) >= 1 /\ StartsWith(args.start, w)
    /\ resultat = {}

\* C4: mots_de_n_lettres(mots, n) is a subset of mots whose members have
\* exactly n characters; the results for two different n are disjoint; the
\* union of the results over the lengths of the words of mots is mots.
C4_Partition ==
    /\ op = "mots_de_n_lettres" =>
          /\ resultat \subseteq mots
          /\ \A w \in resultat : Len(w) = args.n
          /\ \A n2 \in Longueurs \ {args.n} : resultat \cap mots_de_n_lettres(mots, n2) = {}
    /\ pc # "init" =>
          UNION {mots_de_n_lettres(mots, Len(w)) : w \in mots} = mots

\* a lexicon of two words of different lengths, one of them returned
C4_Witness ==
    /\ op = "mots_de_n_lettres"
    /\ resultat # {}
    /\ resultat # mots

\* C5: mots_avec returns exactly the words in which s occurs at some offset,
\* character for character; with the empty s it returns the lexicon.
C5_MotsAvecContract ==
    op = "mots_avec" =>
        /\ resultat = {w \in mots : Occurs(w, args.s)}
        /\ args.s = <<>> => resultat = mots

\* s occurs in one word, not at its start, and not in another
C5_Witness ==
    /\ op = "mots_avec"
    /\ args.s # <<>>
    /\ resultat # mots
    /\ \E w \in resultat : ~StartsWith(w, args.s)

\* C6, as stated: mots_de_n_lettres returns the empty set for every n <= 0.
C6_Original ==
    (op = "mots_de_n_lettres" /\ args.n <= 0) => resultat = {}

\* C6, amended: mots_de_n_lettres returns the empty set for every n < 0;
\* for n = 0 it returns the empty word when the lexicon holds it (the file
\* has a blank line) and the empty set otherwise.
C6_Amended ==
    (op = "mots_de_n_lettres" /\ args.n <= 0) =>
        resultat = IF args.n = 0 /\ <<>> \in mots THEN {<<>>} ELSE {}

\* n = 0 on a lexicon that holds the empty word and another word
C6_Witness ==
    /\ op = "mots_de_n_lettres"
    /\ args.n = 0
    /\ resultat = {<<>>}
    /\ mots # {<<>>}

\* C7: with nmin > nmax or nmax negative, cherche2 returns the empty set
\* and gets past the length test for no word, so that no prefix, fragment
\* or suffix is examined.
C7_MalformedRange ==
    (op = "cherche2" /\ (args.nmin > args.nmax \/ args.nmax < 0)) =>
        /\ resultat = {}
        /\ vus = {}

\* nmin > nmax >= 0 on a lexicon with a word of nmax letters that meets the
\* prefix, suffix and fragment conditions
C7_Witness ==
    /\ op = "cherche2"
    /\ args.nmin > args.nmax
    /\ \E w \in mots :
          /\ Len(w) = args.nmax
          /\ \E p \in Elements(args.lstart) : StartsWith(w, p)
          /\ \E s \in Elements(args.lstop) : EndsWith(w, s)
          /\ \E m \in Elements(args.lmid) : StrictInterior(w, m)
    /\ resultat = {}

\* the first occurrence of m in w touches a boundary of w and a later one
\* is strictly interior
LaterInterior(w, m) ==
    /\ Occurs(w, m)
    /\ LET d == Min({e \in 0..Len(w) : OccursAt(w, m, e)})
       IN  d = 0 \/ d + Len(m) = Len(w)
    /\ StrictInterior(w, m)

\* C8: the scan of a word ends with the verdict "some occurrence of some
\* fragment is strictly interior", whichever occurrence comes first; a word
\* whose first occurrence of a fragment touches a boundary while a later one
\* is strictly interior gets the verdict TRUE and is returned by cherche2
\* when it meets the length, prefix and suffix conditions.
C8_ScanContinues ==
    pc = "fin" =>
        /\ contient_au_milieu <=> \E i \in 1..Len(lmid) : StrictInterior(mot, lmid[i])
        /\ (\E i \in 1..Len(lmid) : LaterInterior(mot, lmid[i])) =>
              /\ contient_au_milieu
              /\ mot \in cherche2(mots, Str(<<>>), List(lmid), Str(<<>>), 0, Len(mot))

\* the scan ended with TRUE on a fragment that is not empty, after an
\* occurrence at offset 0 that failed the test
C8_Witness ==
    /\ pc = "fin"
    /\ contient_au_milieu
    /\ lmid[k] # <<>>
    /\ LaterInterior(mot, lmid[k])
    /\ find(mot, lmid[k], 0) = 0
    /\ trouves >= 2

\* C9: when lmid holds the empty string, every word of at least two
\* characters that meets the length, prefix and suffix conditions is
\* returned; when lmid holds nothing else, no word of fewer than two
\* characters is.
C9_EmptyFragment ==
    (op = "cherche2" /\ <<>> \in Elements(args.lmid)) =>
        /\ \A w \in mots : (Len(w) >= 2 /\ Candidate(w)) => w \in resultat
        /\ Elements(args.lmid) = {<<>>} => \A w \in resultat : Len(w) >= 2

\* lmid is the empty string; a word of two characters or more is returned
\* and a shorter candidate is not
C9_Witness ==
    /\ op = "cherche2"
    /\ Elements(args.lmid) = {<<>>}
    /\ resultat # {}
    /\ \E w \in mots \ resultat : Candidate(w)

\* C10: in the while loop the found index increases strictly from one
\* iteration to the next, at most len(mot) + 1 indices are found for one
\* fragment, and the scan of a word, once begun, ends.
C10_ScanTerminates ==
    /\ [][(pc = "while" /\ pc' = "while" /\ idx' # -1) => idx' > idx]_vars
    /\ [](trouves <= Len(mot) + 1)
    /\ (pc = "for") ~> (pc = "fin")

\* the scan of a word for the empty fragment has ended after finding every
\* offset 0..len(mot), none of them strictly interior
C10_Witness ==
    /\ pc = "fin"
    /\ lmid = <<(<<>>)>>
    /\ Len(mot) >= 1
    /\ trouves = Len(mot) + 1
    /\ ~contient_au_milieu

\* The statement-by-statement scan ends with the value of the for loop.
ScanResult == pc = "fin" => (contient_au_milieu <=> boucle_for(mot, lmid))

====
